---- MODULE Spec2Model ----
(***************************************************************************)
(* Model of rich-results-script.js: the Operation Retrier                  *)
(* (retryOperation), the error-recovery loop (handleRetryOnFailure), the   *)
(* completion poller (waitForTestCompletion) and the workflow that calls   *)
(* them (InitializeRichResultsScript).                                     *)
(*                                                                         *)
(* Time is the value of Date.now() in milliseconds.  A timer advances it   *)
(* by the delay the timer really waits; a call to the remote page advances *)
(* it by a latency drawn from Latencies.                                   *)
(***************************************************************************)
EXTENDS Integers, Sequences, FiniteSets, TLC

VARIABLES
    pc,          \* position of the (single) async control flow
    now,         \* Date.now()
    \* ---- retryOperation's frame ----
    rFn,         \* which operation fn is: "goto", "waitForSelector" or "unit"
    rRetries,    \* parameter retries
    rDelayMs,    \* parameter delayMs
    rAttempt,    \* local attempt
    rErr,        \* the err bound by the catch clause
    \* ---- what a caller of retryOperation can observe ----
    fnLog,       \* outcome of each invocation of fn in the current call
    delays,      \* the delays really waited between attempts, in order
    rOutcome,    \* how the current call ended: none / returned v / threw e
    \* ---- parseArgs' config and the workflow ----
    inputUrl,    \* the argument of InitializeRichResultsScript
    retries,     \* config.retries
    timeout,     \* config.timeout
    browser,     \* "none", "open" or "closed"
    raised,      \* the error that left the try block, NoValue if none
    shots,       \* number of page.screenshot calls made
    \* ---- handleRetryOnFailure's frame ----
    hMaxRetries, \* parameter maxRetries
    hAttempt,    \* loop variable attempt
    \* ---- what the page saw of handleRetryOnFailure ----
    errObs,      \* the answers of its error-modal observations, in order
    enters,      \* Enter presses made by it (re-submissions)
    dismisses,   \* clicks on the Dismiss button made by it
    settles,     \* settle waits (waitForTimeout(3000)) made by it
    \* ---- waitForTestCompletion's frame ----
    wStart,      \* const start
    wSpinner,    \* what the page showed when the current tick's spinner
                 \* check looked: "present", "absent", or "unread" before it
    wChecked,    \* has the current tick's results check looked at the page?
    wPage,       \* the page that results check looked at
    wSpinSignal, \* was a completion signal on the page the spinner check
                 \* looked at?
    wTickAt,     \* Date.now() as read by the loop's test that began the tick
    \* ---- what a caller of waitForTestCompletion can observe ----
    wEntered,    \* Date.now() when waitForTestCompletion was entered
    wTicks,      \* number of loop iterations begun
    wOutcome     \* "notcalled", "polling", "complete" or "timedout"

retryVars == <<rFn, rRetries, rDelayMs, rAttempt, rErr, fnLog, delays, rOutcome>>
cfgVars == <<inputUrl, retries, timeout>>
flowVars == <<browser, raised, shots>>
handleVars == <<hMaxRetries, hAttempt, errObs, enters, dismisses, settles>>
waitVars ==
    <<wStart, wSpinner, wChecked, wPage, wSpinSignal, wTickAt, wEntered, wTicks,
      wOutcome>>
vars == <<pc, now, retryVars, cfgVars, flowVars, handleVars, waitVars>>

-----------------------------------------------------------------------------
(* Bounds of the model *)

\* largest retries parameter tried when retryOperation is checked on its own
MaxR == 3
\* largest config.retries tried in the workflow
MaxRetries == 1
\* largest maxRetries of handleRetryOnFailure tried besides its default
MaxRecovery == 1
\* config.timeout is tried at 0, 1000, ..., MaxTimeoutTicks * 1000
MaxTimeoutTicks == 1

\* alone, waitForTestCompletion is tried with timeouts up to MaxPollTicks * 1000
MaxPollTicks == 4

\* latency of one remote call, in milliseconds
Latencies == {0, 1000}
\* delayMs of retryOperation on its own; the last one is large enough for
\* the doubled delay to leave the timer's range
DelayChoices == {1, 1000, 1073741824}

-----------------------------------------------------------------------------
(* Values *)

NoValue == [kind |-> "none"]
\* the value the j-th invocation of fn resolves to
FnResult(fn, j) == [kind |-> "value", fn |-> fn, of |-> j]
\* the error object the j-th invocation of fn rejects with
FnError(fn, j) == [kind |-> "error", fn |-> fn, of |-> j]
Returned(v) == [kind |-> "returned", val |-> v]
Threw(e) == [kind |-> "threw", val |-> e]

\* throw new Error("Repeated 'Something went wrong' errors after max retries.")
ErrRepeated ==
    [kind |-> "error", fn |-> "handleRetryOnFailure",
     msg |-> "Repeated 'Something went wrong' errors after max retries."]
\* throw new Error("Timed out waiting for Rich Results Test to complete")
ErrTimedOut ==
    [kind |-> "error", fn |-> "waitForTestCompletion",
     msg |-> "Timed out waiting for Rich Results Test to complete"]
\* the rejection of a remote call made at position step
RemoteError(step) == [kind |-> "error", fn |-> step, msg |-> "remote call failed"]

\* What the poller's two page.evaluate calls can find on the page: a
\* spinner / "Testing" element, a "View details" button, a <pre> block, a
\* <span> whose text matches /\bTEST COMPLETE\b/i.  The page may also show
\* the "Something went wrong" modal (err), which the poller does not look for.
PollPages ==
    [spinner : BOOLEAN, viewDetails : BOOLEAN, pre : BOOLEAN,
     testComplete : BOOLEAN, err : BOOLEAN]
BlankPage ==
    [spinner |-> FALSE, viewDetails |-> FALSE, pre |-> FALSE,
     testComplete |-> FALSE, err |-> FALSE]

-----------------------------------------------------------------------------
(* Timers *)

RECURSIVE Pow2(_)
Pow2(n) == IF n <= 0 THEN 1 ELSE 2 * Pow2(n - 1)

\* The largest delay a timer accepts; setTimeout waits 1 ms for anything
\* outside 1..TIMEOUT_MAX.
TIMEOUT_MAX == 2147483647

\* setTimeout(res, ms): the delay really waited.
SetTimeoutDelay(ms) == IF ms >= 1 /\ ms <= TIMEOUT_MAX THEN ms ELSE 1

\* Does delayMs * 2 ** (attempt - 1) fit the timer's range?  The product is
\* an exact double in the source; here it is compared by division so that it
\* is never formed when it exceeds 32 bits.
BackoffInRange(delayMs, attempt) ==
    /\ delayMs >= 1
    /\ Pow2(attempt - 1) <= TIMEOUT_MAX \div delayMs

\* const backoff = delayMs * 2 ** (attempt - 1); setTimeout(res, backoff):
\* the delay waited before the next attempt.
BackoffWait(delayMs, attempt) ==
    IF BackoffInRange(delayMs, attempt)
    THEN SetTimeoutDelay(delayMs * Pow2(attempt - 1))
    ELSE 1

-----------------------------------------------------------------------------
(* retryOperation(fn, retries, delayMs) *)

\* where control goes when retryOperation returns / throws
RetryReturnsTo(fn) ==
    CASE fn = "goto" -> "call_waitForSelector"
      [] fn = "waitForSelector" -> "submit"
      [] OTHER -> "unit_returned"

RetryThrowsTo(fn) == IF fn = "unit" THEN "unit_threw" ELSE "catch"

\* let attempt = 0; while (true) { try { ... -- entry of the call
EnterRetry(fn, r, d) ==
    /\ rFn' = fn
    /\ rRetries' = r
    /\ rDelayMs' = d
    /\ rAttempt' = 0
    /\ rErr' = NoValue
    /\ fnLog' = <<>>
    /\ delays' = <<>>
    /\ rOutcome' = NoValue

\* variant: the test off by one
RetriesExhaustedLate(attempt, r) == attempt > r + 1

\* has the attempt counter used up the retries?  (attempt > retries)
RetriesExhausted(attempt, r) == attempt > r

\* variant: a new error wrapping the caught one
ThrownErrorWrapped(err) == [kind |-> "error", fn |-> "retry failed", cause |-> err]

\* throw err; -- the object that leaves retryOperation
ThrownError(err) == err

\* variant: the result is awaited but not returned until the retries are used
RetryFnResolvesAndLoops ==
    /\ pc = "retry_try"
    /\ \E lat \in Latencies : now' = now + lat
    /\ fnLog' = Append(fnLog, "resolved")
    /\ pc' = IF Len(fnLog) < rRetries THEN "retry_try" ELSE RetryReturnsTo(rFn)
    /\ rOutcome' = IF Len(fnLog) < rRetries
                   THEN rOutcome
                   ELSE Returned(FnResult(rFn, Len(fnLog) + 1))
    /\ UNCHANGED <<rFn, rRetries, rDelayMs, rAttempt, rErr, delays>>
    /\ UNCHANGED <<cfgVars, flowVars, handleVars, waitVars>>

\* try { return await fn(); } -- fn resolves
RetryFnResolves ==
    /\ pc = "retry_try"
    /\ \E lat \in Latencies : now' = now + lat
    /\ fnLog' = Append(fnLog, "resolved")
    /\ rOutcome' = Returned(FnResult(rFn, Len(fnLog) + 1))
    /\ pc' = RetryReturnsTo(rFn)
    /\ UNCHANGED <<rFn, rRetries, rDelayMs, rAttempt, rErr, delays>>
    /\ UNCHANGED <<cfgVars, flowVars, handleVars, waitVars>>

\* try { return await fn(); } -- fn rejects, control enters the catch clause
RetryFnRejects ==
    /\ pc = "retry_try"
    /\ \E lat \in Latencies : now' = now + lat
    /\ fnLog' = Append(fnLog, "rejected")
    /\ rErr' = FnError(rFn, Len(fnLog) + 1)
    /\ pc' = "retry_catch"
    /\ UNCHANGED <<rFn, rRetries, rDelayMs, rAttempt, delays, rOutcome>>
    /\ UNCHANGED <<cfgVars, flowVars, handleVars, waitVars>>

\* catch (err) { attempt++; if (attempt > retries) throw err; ... }
RetryGiveUp ==
    /\ pc = "retry_catch"
    /\ RetriesExhausted(rAttempt + 1, rRetries)
    /\ rAttempt' = rAttempt + 1
    /\ rOutcome' = Threw(ThrownError(rErr))
    /\ raised' = IF rFn = "unit" THEN raised ELSE ThrownError(rErr)
    /\ pc' = RetryThrowsTo(rFn)
    /\ UNCHANGED <<now, rFn, rRetries, rDelayMs, rErr, fnLog, delays>>
    /\ UNCHANGED <<cfgVars, browser, shots, handleVars, waitVars>>

\* catch (err) { attempt++; ...; const backoff = ...;
\*               await new Promise((res) => setTimeout(res, backoff)); }
RetryBackoff ==
    /\ pc = "retry_catch"
    /\ ~RetriesExhausted(rAttempt + 1, rRetries)
    /\ rAttempt' = rAttempt + 1
    /\ now' = now + BackoffWait(rDelayMs, rAttempt + 1)
    /\ delays' = Append(delays, BackoffWait(rDelayMs, rAttempt + 1))
    /\ pc' = "retry_try"
    /\ UNCHANGED <<rFn, rRetries, rDelayMs, rErr, fnLog, rOutcome>>
    /\ UNCHANGED <<cfgVars, flowVars, handleVars, waitVars>>

-----------------------------------------------------------------------------
(* Timer lengths and defaults of the source *)

RetryDelayMs == 1000
SubmitWaitMs == 3000
DismissWaitMs == 1000
SettleMs == 3000
PollMs == 1000
OverlayMs == 2500
DefaultMaxRetries == 5

InputUrls == {"undefined", "", "squeegeedetail.com"}
RetryChoices == 0..MaxRetries
RecoveryChoices == (0..MaxRecovery) \cup {DefaultMaxRetries}
TimeoutChoices == {k * 1000 : k \in 0..MaxTimeoutTicks}
PollTimeoutChoices == {k * 1000 : k \in 0..MaxPollTicks}

-----------------------------------------------------------------------------
(* A remote call rejects: inside the try block any awaited call on the     *)
(* page may throw, and the error goes to the catch clause.                 *)

RemotePcs ==
    {"submit", "h_observe", "h_dismiss", "h_resubmit", "h_final",
     "w_spinner", "w_results", "overlay", "screenshot"}

RemoteCallFails ==
    /\ pc \in RemotePcs
    /\ \E lat \in Latencies : now' = now + lat
    /\ raised' = RemoteError(pc)
    /\ pc' = "catch"
    /\ UNCHANGED <<retryVars, cfgVars, browser, shots, handleVars, waitVars>>

-----------------------------------------------------------------------------
(* handleRetryOnFailure(page, maxRetries = 5) *)

\* variant: the test off by one
HLoopHeadStrict(attempt, max) == IF attempt < max THEN "h_observe" ELSE "h_final"

\* for (let attempt = 1; attempt <= maxRetries; attempt++): the loop's test
HLoopHead(attempt, max) == IF attempt <= max THEN "h_observe" ELSE "h_final"

\* await handleRetryOnFailure(page): entry, attempt = 1
CallHandleRetry ==
    /\ pc = "call_handleRetry"
    /\ hAttempt' = 1
    /\ pc' = HLoopHead(1, hMaxRetries)
    /\ UNCHANGED <<now, retryVars, cfgVars, flowVars, waitVars>>
    /\ UNCHANGED <<hMaxRetries, errObs, enters, dismisses, settles>>

\* variant: no early return
HObserveClearRecovers ==
    /\ pc = "h_observe"
    /\ \E lat \in Latencies : now' = now + lat
    /\ errObs' = Append(errObs, FALSE)
    /\ pc' = "h_dismiss"
    /\ UNCHANGED <<retryVars, cfgVars, flowVars, waitVars>>
    /\ UNCHANGED <<hMaxRetries, hAttempt, enters, dismisses, settles>>

\* errorModalVisible is false: return
HObserveClear ==
    /\ pc = "h_observe"
    /\ \E lat \in Latencies : now' = now + lat
    /\ errObs' = Append(errObs, FALSE)
    /\ pc' = "call_wait"
    /\ UNCHANGED <<retryVars, cfgVars, flowVars, waitVars>>
    /\ UNCHANGED <<hMaxRetries, hAttempt, enters, dismisses, settles>>

\* errorModalVisible is true: warn and go on to the recovery actions
HObserveError ==
    /\ pc = "h_observe"
    /\ \E lat \in Latencies : now' = now + lat
    /\ errObs' = Append(errObs, TRUE)
    /\ pc' = "h_dismiss"
    /\ UNCHANGED <<retryVars, cfgVars, flowVars, waitVars>>
    /\ UNCHANGED <<hMaxRetries, hAttempt, enters, dismisses, settles>>

\* const [dismissButton] = await page.$x(...);
\* if (dismissButton) { click; waitForTimeout(1000) }
HDismiss ==
    /\ pc = "h_dismiss"
    /\ \E found \in BOOLEAN, lat \in Latencies :
        /\ dismisses' = IF found THEN dismisses + 1 ELSE dismisses
        /\ now' = IF found THEN now + lat + DismissWaitMs ELSE now + lat
    /\ pc' = "h_resubmit"
    /\ UNCHANGED <<retryVars, cfgVars, flowVars, waitVars>>
    /\ UNCHANGED <<hMaxRetries, hAttempt, errObs, enters, settles>>

\* waitForSelector(inputSelector); focus; keyboard.press("Enter")
HResubmit ==
    /\ pc = "h_resubmit"
    /\ \E lat \in Latencies : now' = now + lat
    /\ enters' = enters + 1
    /\ pc' = "h_settle"
    /\ UNCHANGED <<retryVars, cfgVars, flowVars, waitVars>>
    /\ UNCHANGED <<hMaxRetries, hAttempt, errObs, dismisses, settles>>

\* variant: the loop variable is not advanced
HSettleNoIncrement ==
    /\ pc = "h_settle"
    /\ now' = now + SettleMs
    /\ settles' = settles + 1
    /\ pc' = HLoopHead(hAttempt, hMaxRetries)
    /\ UNCHANGED <<retryVars, cfgVars, flowVars, waitVars>>
    /\ UNCHANGED <<hMaxRetries, hAttempt, errObs, enters, dismisses>>

\* await page.waitForTimeout(3000); attempt++; the loop's test
HSettle ==
    /\ pc = "h_settle"
    /\ now' = now + SettleMs
    /\ settles' = settles + 1
    /\ hAttempt' = hAttempt + 1
    /\ pc' = HLoopHead(hAttempt + 1, hMaxRetries)
    /\ UNCHANGED <<retryVars, cfgVars, flowVars, waitVars>>
    /\ UNCHANGED <<hMaxRetries, errObs, enters, dismisses>>

\* after the loop: stillFailing is false, return
HFinalClear ==
    /\ pc = "h_final"
    /\ \E lat \in Latencies : now' = now + lat
    /\ errObs' = Append(errObs, FALSE)
    /\ pc' = "call_wait"
    /\ UNCHANGED <<retryVars, cfgVars, flowVars, waitVars>>
    /\ UNCHANGED <<hMaxRetries, hAttempt, enters, dismisses, settles>>

\* after the loop: stillFailing is true, throw
HFinalError ==
    /\ pc = "h_final"
    /\ \E lat \in Latencies : now' = now + lat
    /\ errObs' = Append(errObs, TRUE)
    /\ raised' = ErrRepeated
    /\ pc' = "catch"
    /\ UNCHANGED <<retryVars, cfgVars, browser, shots, waitVars>>
    /\ UNCHANGED <<hMaxRetries, hAttempt, enters, dismisses, settles>>

-----------------------------------------------------------------------------
(* waitForTestCompletion(page, timeout) *)

\* variant: the test off by one
DeadlineOpenInclusive(t, start, tmo) == t - start <= tmo

\* while (Date.now() - start < timeout): the loop's test
DeadlineOpen(t, start, tmo) == t - start < tmo

\* variant: the spinner is not looked for
SpinnerIgnored(p) == FALSE

\* hasLoadingSpinner: !!document.querySelector(spinner or "Testing" label)
HasLoadingSpinner(p) == p.spinner

\* variant: the <pre> block is not looked for
ResultsVisibleNoPre(p) == p.viewDetails \/ p.testComplete

\* resultsVisible: "View details" button, or <pre>, or TEST COMPLETE span
ResultsVisible(p) == p.viewDetails \/ p.pre \/ p.testComplete

\* variant: the clock of the whole run
PollStartAtTaskStart(t) == 0

\* const start = Date.now(), read at time t
PollStart(t) == t

\* await waitForTestCompletion(page, timeout): entry
CallWait ==
    /\ pc = "call_wait"
    /\ wStart' = PollStart(now)
    /\ wEntered' = now
    /\ wOutcome' = "polling"
    /\ pc' = "w_check"
    /\ UNCHANGED <<now, retryVars, cfgVars, flowVars, handleVars>>
    /\ UNCHANGED <<wSpinner, wChecked, wPage, wSpinSignal, wTickAt, wTicks>>

\* the loop's test holds: a tick begins
WaitCheckOpen ==
    /\ pc = "w_check"
    /\ DeadlineOpen(now, wStart, timeout)
    /\ wTicks' = wTicks + 1
    /\ wSpinner' = "unread"
    /\ wChecked' = FALSE
    /\ wPage' = BlankPage
    /\ wSpinSignal' = FALSE
    /\ wTickAt' = now
    /\ pc' = "w_spinner"
    /\ UNCHANGED <<now, retryVars, cfgVars, flowVars, handleVars>>
    /\ UNCHANGED <<wStart, wEntered, wOutcome>>

\* variant: the loop ends without the throw
WaitCheckTimedOutReturns ==
    /\ pc = "w_check"
    /\ ~DeadlineOpen(now, wStart, timeout)
    /\ wOutcome' = "complete"
    /\ pc' = "overlay"
    /\ UNCHANGED <<now, retryVars, cfgVars, flowVars, handleVars>>
    /\ UNCHANGED <<wStart, wSpinner, wChecked, wPage, wSpinSignal, wTickAt>>
    /\ UNCHANGED <<wEntered, wTicks>>

\* the loop's test fails: throw new Error("Timed out waiting ...")
WaitCheckTimedOut ==
    /\ pc = "w_check"
    /\ ~DeadlineOpen(now, wStart, timeout)
    /\ wOutcome' = "timedout"
    /\ raised' = ErrTimedOut
    /\ pc' = "catch"
    /\ UNCHANGED <<now, retryVars, cfgVars, browser, shots, handleVars>>
    /\ UNCHANGED <<wStart, wSpinner, wChecked, wPage, wSpinSignal, wTickAt>>
    /\ UNCHANGED <<wEntered, wTicks>>

\* const hasLoadingSpinner = await page.evaluate(...);
\* if (hasLoadingSpinner) { sleep; continue; }
WaitSpinnerCheck ==
    /\ pc = "w_spinner"
    /\ \E p \in PollPages, lat \in Latencies :
        /\ now' = now + lat
        /\ wSpinner' = IF p.spinner THEN "present" ELSE "absent"
        /\ wSpinSignal' = (p.viewDetails \/ p.pre \/ p.testComplete)
        /\ pc' = IF HasLoadingSpinner(p) THEN "w_sleep" ELSE "w_results"
    /\ UNCHANGED <<retryVars, cfgVars, flowVars, handleVars>>
    /\ UNCHANGED <<wStart, wChecked, wPage, wTickAt, wEntered, wTicks, wOutcome>>

\* variant: the poller looks for the error text and fails on it
WaitResultsCheckFailsOnError ==
    /\ pc = "w_results"
    /\ \E p \in PollPages, lat \in Latencies :
        /\ now' = now + lat
        /\ wChecked' = TRUE
        /\ wPage' = p
        /\ wOutcome' = IF ~p.err /\ ResultsVisible(p) THEN "complete" ELSE wOutcome
        /\ raised' = IF p.err THEN ErrRepeated ELSE raised
        /\ pc' = IF p.err THEN "catch"
                 ELSE IF ResultsVisible(p) THEN "overlay" ELSE "w_sleep"
    /\ UNCHANGED <<retryVars, cfgVars, browser, shots, handleVars>>
    /\ UNCHANGED <<wStart, wSpinner, wSpinSignal, wTickAt, wEntered, wTicks>>

\* const resultsVisible = await page.evaluate(...);
\* if (resultsVisible) return;  otherwise sleep and poll again
WaitResultsCheck ==
    /\ pc = "w_results"
    /\ \E p \in PollPages, lat \in Latencies :
        /\ now' = now + lat
        /\ wChecked' = TRUE
        /\ wPage' = p
        /\ wOutcome' = IF ResultsVisible(p) THEN "complete" ELSE wOutcome
        /\ pc' = IF ResultsVisible(p) THEN "overlay" ELSE "w_sleep"
    /\ UNCHANGED <<retryVars, cfgVars, flowVars, handleVars>>
    /\ UNCHANGED <<wStart, wSpinner, wSpinSignal, wTickAt, wEntered, wTicks>>

\* await new Promise((res) => setTimeout(res, 1000)); back to the loop's test
WaitSleep ==
    /\ pc = "w_sleep"
    /\ now' = now + SetTimeoutDelay(PollMs)
    /\ pc' = "w_check"
    /\ UNCHANGED <<retryVars, cfgVars, flowVars, handleVars, waitVars>>

-----------------------------------------------------------------------------
(* parseArgs and InitializeRichResultsScript *)

\* variant: only undefined counts as missing
UrlMissingStrict(u) == u = "undefined"

\* if (!config.url)
UrlMissing(u) == u \in {"undefined", ""}

\* parseArgs: the url is there
ParseArgsOk ==
    /\ pc = "parseArgs"
    /\ ~UrlMissing(inputUrl)
    /\ pc' = "launch"
    /\ UNCHANGED <<now, retryVars, cfgVars, flowVars, handleVars, waitVars>>

\* parseArgs: console.error("ERROR: --url is required"); process.exit(1)
ParseArgsMissing ==
    /\ pc = "parseArgs"
    /\ UrlMissing(inputUrl)
    /\ pc' = "exited"
    /\ UNCHANGED <<now, retryVars, cfgVars, flowVars, handleVars, waitVars>>

\* puppeteer.launch, browser.newPage, setViewport, setDefaultTimeout
Launch ==
    /\ pc = "launch"
    /\ \E lat \in Latencies : now' = now + lat
    /\ browser' = "open"
    /\ pc' = "call_goto"
    /\ UNCHANGED <<retryVars, cfgVars, raised, shots, handleVars, waitVars>>

\* puppeteer.launch rejects, before the try block: the promise rejects
LaunchFails ==
    /\ pc = "launch"
    /\ \E lat \in Latencies : now' = now + lat
    /\ raised' = RemoteError("launch")
    /\ pc' = "rejected"
    /\ UNCHANGED <<retryVars, cfgVars, browser, shots, handleVars, waitVars>>

\* await retryOperation(() => page.goto(...), retries, 1000)
CallGoto ==
    /\ pc = "call_goto"
    /\ EnterRetry("goto", retries, RetryDelayMs)
    /\ pc' = "retry_try"
    /\ UNCHANGED <<now, cfgVars, flowVars, handleVars, waitVars>>

\* await retryOperation(() => page.waitForSelector(...), retries, 1000)
CallWaitForSelector ==
    /\ pc = "call_waitForSelector"
    /\ EnterRetry("waitForSelector", retries, RetryDelayMs)
    /\ pc' = "retry_try"
    /\ UNCHANGED <<now, cfgVars, flowVars, handleVars, waitVars>>

\* move to the input and click it (or focus it), type the url, press Enter,
\* waitForTimeout(3000).  Both calls of retryOperation have returned: its
\* frame is gone.
Submit ==
    /\ pc = "submit"
    /\ \E lat \in Latencies : now' = now + lat + SubmitWaitMs
    /\ pc' = "call_handleRetry"
    /\ EnterRetry("unit", 0, RetryDelayMs)
    /\ UNCHANGED <<cfgVars, flowVars, handleVars, waitVars>>

\* draw the overlay, wait 2500 ms
Overlay ==
    /\ pc = "overlay"
    /\ \E lat \in Latencies : now' = now + lat + OverlayMs
    /\ pc' = "screenshot"
    /\ UNCHANGED <<retryVars, cfgVars, flowVars, handleVars, waitVars>>

\* page.screenshot(...); the try block ends, control enters finally
Screenshot ==
    /\ pc = "screenshot"
    /\ \E lat \in Latencies : now' = now + lat
    /\ shots' = shots + 1
    /\ pc' = "finally"
    /\ UNCHANGED <<retryVars, cfgVars, browser, raised, handleVars, waitVars>>

\* catch (err) { console.error(...); process.exit(1); }
Catch ==
    /\ pc = "catch"
    /\ pc' = "exited"
    /\ UNCHANGED <<now, retryVars, cfgVars, flowVars, handleVars, waitVars>>

\* finally { await browser.close(); }
Finally ==
    /\ pc = "finally"
    /\ \E lat \in Latencies : now' = now + lat
    /\ browser' = "closed"
    /\ pc' = "resolved"
    /\ UNCHANGED <<retryVars, cfgVars, raised, shots, handleVars, waitVars>>

-----------------------------------------------------------------------------
(* Initial values of the parts a specification does not start in *)

IdleRetry ==
    /\ rFn = "unit"
    /\ rRetries = 0
    /\ rDelayMs = RetryDelayMs
    /\ rAttempt = 0
    /\ rErr = NoValue
    /\ fnLog = <<>>
    /\ delays = <<>>
    /\ rOutcome = NoValue

IdleConfig ==
    /\ inputUrl = "squeegeedetail.com"
    /\ retries = 0
    /\ timeout = 0

IdleFlow ==
    /\ browser = "none"
    /\ raised = NoValue
    /\ shots = 0

IdleHandle ==
    /\ hMaxRetries = DefaultMaxRetries
    /\ hAttempt = 0
    /\ errObs = <<>>
    /\ enters = 0
    /\ dismisses = 0
    /\ settles = 0

IdleWait ==
    /\ wStart = 0
    /\ wSpinner = "unread"
    /\ wChecked = FALSE
    /\ wPage = BlankPage
    /\ wSpinSignal = FALSE
    /\ wTickAt = 0
    /\ wEntered = 0
    /\ wTicks = 0
    /\ wOutcome = "notcalled"

-----------------------------------------------------------------------------
(* The workflow: InitializeRichResultsScript(inputUrl) from its first line *)

Init ==
    /\ pc = "parseArgs"
    /\ now = 0
    /\ inputUrl \in InputUrls
    /\ retries \in RetryChoices
    /\ timeout \in TimeoutChoices
    /\ hMaxRetries \in RecoveryChoices
    /\ hAttempt = 0
    /\ errObs = <<>>
    /\ enters = 0
    /\ dismisses = 0
    /\ settles = 0
    /\ IdleRetry
    /\ IdleFlow
    /\ IdleWait

Next ==
    \/ ParseArgsOk
    \/ ParseArgsMissing
    \/ Launch
    \/ LaunchFails
    \/ CallGoto
    \/ CallWaitForSelector
    \/ RetryFnResolves
    \/ RetryFnRejects
    \/ RetryGiveUp
    \/ RetryBackoff
    \/ Submit
    \/ CallHandleRetry
    \/ HObserveClear
    \/ HObserveError
    \/ HDismiss
    \/ HResubmit
    \/ HSettle
    \/ HFinalClear
    \/ HFinalError
    \/ CallWait
    \/ WaitCheckOpen
    \/ WaitCheckTimedOut
    \/ WaitSpinnerCheck
    \/ WaitResultsCheck
    \/ WaitSleep
    \/ RemoteCallFails
    \/ Overlay
    \/ Screenshot
    \/ Catch
    \/ Finally

Spec == Init /\ [][Next]_vars

\* The workflow under the scheduling of the event loop: a continuation runs
\* once the timer or remote call it awaits has settled (each remote call
\* returns or throws).
SpecFair == Spec /\ WF_vars(Next)

-----------------------------------------------------------------------------
(* waitForTestCompletion on its own, every timeout in PollTimeoutChoices.   *)
(* The event loop runs a continuation whenever its timer or remote call    *)
(* has settled, hence the weak fairness.                                   *)

InitPoll ==
    /\ pc = "call_wait"
    /\ now \in {0, SubmitWaitMs}
    /\ inputUrl = "squeegeedetail.com"
    /\ retries = 0
    /\ timeout \in PollTimeoutChoices
    /\ browser = "open"
    /\ raised = NoValue
    /\ shots = 0
    /\ IdleRetry
    /\ IdleHandle
    /\ IdleWait

NextPoll ==
    \/ CallWait
    \/ WaitCheckOpen
    \/ WaitCheckTimedOut
    \/ WaitSpinnerCheck
    \/ WaitResultsCheck
    \/ WaitSleep
    \/ RemoteCallFails

SpecPoll == InitPoll /\ [][NextPoll]_vars /\ WF_vars(NextPoll)

-----------------------------------------------------------------------------
(* retryOperation on its own: every retries in 0..MaxR, every delayMs in   *)
(* DelayChoices, every sequence of outcomes of fn.                         *)

InitRetry ==
    /\ pc = "retry_try"
    /\ now = 0
    /\ rFn = "unit"
    /\ rRetries \in 0..MaxR
    /\ rDelayMs \in DelayChoices
    /\ rAttempt = 0
    /\ rErr = NoValue
    /\ fnLog = <<>>
    /\ delays = <<>>
    /\ rOutcome = NoValue
    /\ IdleConfig
    /\ IdleFlow
    /\ IdleHandle
    /\ IdleWait

NextRetry ==
    \/ RetryFnResolves
    \/ RetryFnRejects
    \/ RetryGiveUp
    \/ RetryBackoff

SpecRetry == InitRetry /\ [][NextRetry]_vars

-----------------------------------------------------------------------------
(* Properties of retryOperation, checked under SpecRetry *)

Last(seq) == seq[Len(seq)]

\* C6: for every R >= 0, retryOperation(fn, R, D) invokes fn at most R + 1
\* times (once when R = 0); another attempt is pending only while fewer than
\* R + 1 were made, and once the (R+1)-th invocation has failed and the catch
\* clause has run, the call has thrown, after exactly R + 1 invocations.
C6_AtMostRPlusOneAttempts ==
    /\ Len(fnLog) <= rRetries + 1
    /\ (rRetries = 0 => Len(fnLog) <= 1)
    /\ (pc = "retry_try" => Len(fnLog) <= rRetries)
    /\ (rOutcome.kind = "threw" =>
            /\ Len(fnLog) = rRetries + 1
            /\ \A i \in 1..Len(fnLog) : fnLog[i] = "rejected")
    /\ (/\ Len(fnLog) = rRetries + 1
        /\ Last(fnLog) = "rejected"
        /\ pc # "retry_catch"
        => rOutcome.kind = "threw")

\* a call that used up several retries and threw
C6_Witness ==
    /\ rOutcome.kind = "threw"
    /\ rRetries >= 2
    /\ Len(fnLog) = rRetries + 1

\* C7: the delay waited before retry k is delayMs * 2^(k-1) for every k, the
\* delays of one call never decrease, and a delay is waited exactly after
\* each failed attempt that is followed by another attempt.  (The product is
\* compared through \div and % so that it is never formed beyond 32 bits.)
C7_BackoffLaw ==
    /\ \A k \in 1..Len(delays) :
          /\ delays[k] % rDelayMs = 0
          /\ delays[k] \div rDelayMs = Pow2(k - 1)
    /\ \A k \in 1..(Len(delays) - 1) : delays[k] <= delays[k + 1]
    /\ (pc = "retry_try" => Len(delays) = Len(fnLog))
    /\ (rOutcome.kind = "threw" => Len(delays) = rRetries)

\* C8: retryOperation returns the result of the first attempt that resolves
\* and does not invoke fn again: every invocation before the last one was
\* rejected, a resolved invocation ends the call at once, and the value
\* returned is the value of that invocation.
C8_FirstSuccessReturned ==
    /\ \A i \in 1..(Len(fnLog) - 1) : fnLog[i] = "rejected"
    /\ (fnLog # <<>> /\ Last(fnLog) = "resolved" =>
            /\ rOutcome = Returned(FnResult(rFn, Len(fnLog)))
            /\ pc \notin {"retry_try", "retry_catch"})
    /\ (rOutcome.kind = "returned" =>
            /\ fnLog # <<>>
            /\ Last(fnLog) = "resolved"
            /\ Len(fnLog) <= rRetries + 1)

\* the third attempt is the first to resolve
C8_Witness ==
    /\ rOutcome.kind = "returned"
    /\ fnLog = <<"rejected", "rejected", "resolved">>
    /\ rOutcome.val.of = 3

\* C9: when retryOperation gives up, what it throws is the error object of
\* the last invocation of fn, itself: not an earlier attempt's error and not
\* a new error wrapping it.
C9_OriginalErrorSurfaces ==
    rOutcome.kind = "threw" =>
        /\ Last(fnLog) = "rejected"
        /\ rOutcome.val = FnError(rFn, Len(fnLog))

\* a call that threw after more than one failed attempt
C9_Witness ==
    /\ rOutcome.kind = "threw"
    /\ Len(fnLog) >= 2
    /\ rOutcome.val.of = Len(fnLog)

-----------------------------------------------------------------------------
(* Properties of handleRetryOnFailure, checked under Spec *)

AllErrors(obs) == \A i \in 1..Len(obs) : obs[i]

\* C1: with maxRetries = N, when the error modal has been seen N + 1 times
\* in a row (N times in the loop and at the check after it), the function
\* has thrown the "Repeated 'Something went wrong'" error; it throws that
\* error only then, after exactly N presses of Enter and N settle waits, and
\* waitForTestCompletion is never started.
C1_RecoveryExhaustedFails ==
    /\ (Len(errObs) = hMaxRetries + 1 /\ AllErrors(errObs) =>
            /\ raised = ErrRepeated
            /\ pc \in {"catch", "exited"})
    /\ (raised = ErrRepeated =>
            /\ Len(errObs) = hMaxRetries + 1
            /\ AllErrors(errObs)
            /\ enters = hMaxRetries
            /\ settles = hMaxRetries
            /\ wOutcome = "notcalled"
            /\ wTicks = 0)

\* six error observations with the default of five recovery attempts
C1_Witness ==
    /\ raised = ErrRepeated
    /\ hMaxRetries = DefaultMaxRetries
    /\ errObs = <<TRUE, TRUE, TRUE, TRUE, TRUE, TRUE>>
    /\ enters = 5

\* C2: when the error modal has been seen k times in a row, k < maxRetries,
\* and is then seen absent, handleRetryOnFailure has returned: control is at
\* the call of waitForTestCompletion or beyond it, after k presses of Enter,
\* and the repeated-error failure is not produced.
C2_ClearedErrorProceeds ==
    (errObs # <<>> /\ ~Last(errObs) /\ Len(errObs) <= hMaxRetries) =>
        /\ \A i \in 1..(Len(errObs) - 1) : errObs[i]
        /\ raised # ErrRepeated
        /\ enters = Len(errObs) - 1
        /\ (pc = "call_wait" \/ wOutcome # "notcalled")

\* error, error again after one recovery, cleared, then completion
C2_Witness ==
    /\ errObs = <<TRUE, TRUE, FALSE>>
    /\ hMaxRetries = DefaultMaxRetries
    /\ wOutcome = "complete"

-----------------------------------------------------------------------------
(* Properties of waitForTestCompletion, checked under SpecPoll *)

\* one of the three completion signals is on page p
CompletionSignal(p) == p.viewDetails \/ p.pre \/ p.testComplete

PollPcs == {"w_check", "w_spinner", "w_results", "w_sleep"}

\* C3: the poller does not wait forever: once entered it leaves its loop, and
\* unless a results check has seen a completion signal (or a remote call
\* was rejected) it leaves it with the "Timed out waiting" error, never with
\* Complete.
C3_NoSignalTimesOut ==
    /\ (pc \in PollPcs) ~> (pc \notin PollPcs)
    /\ [](wOutcome = "complete" => wChecked /\ CompletionSignal(wPage))
    /\ [](/\ pc \notin PollPcs
          /\ wOutcome # "notcalled"
          /\ ~(wChecked /\ CompletionSignal(wPage))
          /\ raised \in {NoValue, ErrTimedOut}
          => wOutcome = "timedout" /\ raised = ErrTimedOut /\ pc = "catch")

\* several ticks without a completion signal, then the timeout
C3_Witness ==
    /\ wOutcome = "timedout"
    /\ raised = ErrTimedOut
    /\ wTicks >= 2
    /\ ~CompletionSignal(wPage)

\* C4: Complete is returned only at a tick whose spinner check found no
\* processing indicator and whose results check found a completion signal; a
\* tick that found the processing indicator makes no results check and does
\* not return Complete; a tick that found neither returns neither Complete
\* nor a failure of its own: the poller sleeps, and ends only by the
\* deadline at a later test of the loop.
C4_CompleteOnlyOnSignal ==
    /\ (wOutcome = "complete" =>
            /\ wSpinner = "absent"
            /\ wChecked
            /\ CompletionSignal(wPage))
    /\ (wSpinner = "present" => ~wChecked /\ wOutcome # "complete")
    /\ (wSpinner = "absent" /\ wChecked /\ ~CompletionSignal(wPage) =>
            /\ wOutcome \in {"polling", "timedout"}
            /\ (pc = "w_sleep" => wOutcome = "polling" /\ raised = NoValue)
            /\ pc \in {"w_sleep", "w_check", "catch"})

\* a tick that saw the processing indicator, and the poller is still waiting
C4_Witness ==
    /\ wSpinner = "present"
    /\ pc = "w_sleep"
    /\ wOutcome = "polling"

\* C5: at a tick begun before the deadline, when the spinner check found no
\* processing indicator and the results check found any of the three
\* completion signals, alone or together, the poller returns Complete at
\* that tick.
C5_AnySignalCompletes ==
    (wSpinner = "absent" /\ wChecked /\ CompletionSignal(wPage)) =>
        /\ wOutcome = "complete"
        /\ raised # ErrTimedOut
        /\ pc \notin PollPcs

\* waiting, waiting, then a <pre> block alone
C5_Witness ==
    /\ wOutcome = "complete"
    /\ wTicks = 3
    /\ wPage.pre
    /\ ~wPage.viewDetails
    /\ ~wPage.testComplete

-----------------------------------------------------------------------------
(* The deadline, checked under Spec.  The run starts at now = 0, so now is  *)
(* the time elapsed since the Task started.                                 *)

\* C10 as claimed: a tick of the poller begins only while the time elapsed
\* since the Task started is below the timeout.
C10_DeadlineFromTaskStart ==
    pc = "w_spinner" => now < timeout

\* C10 as amended: the deadline is measured from the entry of
\* waitForTestCompletion: a tick begins only while the time elapsed since
\* that entry is below the timeout, and the poller times out only at a test
\* of its loop where that time has reached the timeout.
C10_DeadlineFromPollerEntry ==
    /\ (pc = "w_spinner" => now - wEntered < timeout)
    /\ (wOutcome = "timedout" => now - wEntered >= timeout)
    /\ (wOutcome # "notcalled" => wEntered >= SubmitWaitMs)

\* a run that timed out after recovery, later than timeout after Task start
C10_Witness ==
    /\ wOutcome = "timedout"
    /\ timeout > 0
    /\ enters >= 1
    /\ wTicks >= 1
    /\ now >= wEntered + timeout
    /\ wEntered > timeout

-----------------------------------------------------------------------------
(* The deadline inside the poller, checked under SpecPoll *)

TickPcs == {"w_spinner", "w_results", "w_sleep"}

\* C11 as claimed: once the time elapsed since the poller was entered has
\* reached the timeout, no results check is pending and Complete is not
\* returned.
C11_DeadlineAbandonsWaits ==
    /\ (pc = "w_results" => now - wEntered < timeout)
    /\ (wOutcome = "complete" /\ pc = "overlay" => now - wEntered < timeout)

\* C11 as amended: the deadline is tested only by the loop's test.  A tick,
\* and so a return of Complete, belongs to a test passed before the deadline;
\* within a tick nothing is abandoned: the observations are not followed by a
\* timeout, the sleep runs its full 1000 ms and leads back to the test, and
\* the timeout is raised by that test alone.
C11_DeadlineTestedAtLoopHead ==
    /\ []((pc \in TickPcs \/ wOutcome = "complete") =>
              wTickAt - wEntered < timeout)
    /\ [][(pc \in TickPcs) => (wOutcome' # "timedout")]_vars
    /\ [][(pc = "w_sleep") => (pc' = "w_check" /\ now' = now + PollMs)]_vars
    /\ [][(wOutcome # "timedout" /\ wOutcome' = "timedout") =>
              (pc = "w_check" /\ now' = now /\ now - wEntered >= timeout)]_vars

\* Complete returned by a tick whose observations outlasted the deadline
C11_Witness ==
    /\ wOutcome = "complete"
    /\ pc = "overlay"
    /\ timeout > 0
    /\ wTickAt - wEntered < timeout
    /\ now - wEntered >= timeout

-----------------------------------------------------------------------------
(* The capture step and the precondition, checked under Spec *)

\* C12: the overlay is drawn and the screenshot taken only after
\* waitForTestCompletion has returned Complete, i.e. after a results check
\* that saw a completion signal; a run in which an error left the try block
\* (retries used up, recovery used up, timed out, a rejected remote call) has
\* taken no screenshot.
C12_CaptureOnlyAfterComplete ==
    /\ (pc \in {"overlay", "screenshot"} \/ shots > 0 =>
            /\ wOutcome = "complete"
            /\ wChecked
            /\ CompletionSignal(wPage))
    /\ (raised # NoValue => shots = 0)
    /\ shots <= 1

\* a run that recovered from the error modal, completed and took its shot
C12_Witness ==
    /\ shots = 1
    /\ pc = "resolved"
    /\ enters >= 1
    /\ wOutcome = "complete"

\* C13: when the input url is missing (undefined or empty) the run ends in
\* parseArgs: the browser is never launched, no remote call of any kind is
\* made, nothing is retried and no time is spent.
C13_MissingUrlFailsFast ==
    inputUrl \in {"undefined", ""} =>
        /\ pc \in {"parseArgs", "exited"}
        /\ browser = "none"
        /\ fnLog = <<>>
        /\ rAttempt = 0
        /\ errObs = <<>>
        /\ enters = 0
        /\ dismisses = 0
        /\ wOutcome = "notcalled"
        /\ wTicks = 0
        /\ shots = 0
        /\ now = 0

\* the run with an empty url has ended by process.exit
C13_Witness ==
    /\ inputUrl = ""
    /\ pc = "exited"
    /\ browser = "none"

-----------------------------------------------------------------------------
(* Termination, checked under SpecFair *)

TerminalPcs == {"exited", "resolved", "rejected"}

\* C14: every run ends, resolved (Complete) or exited/rejected (Failed), and
\* nothing is retried without bound: each retried step is executed at most
\* retries + 1 times, handleRetryOnFailure makes at most maxRetries recovery
\* cycles and maxRetries + 1 observations, and the poller begins at most one
\* tick per 1000 ms of timeout.
C14_RunTerminatesBounded ==
    /\ <>(pc \in TerminalPcs)
    /\ [](/\ Len(fnLog) <= rRetries + 1
          /\ rRetries <= retries
          /\ enters <= hMaxRetries
          /\ settles <= hMaxRetries
          /\ dismisses <= hMaxRetries
          /\ Len(errObs) <= hMaxRetries + 1
          /\ wTicks * PollMs <= timeout + PollMs - 1)

\* a run that used every budget in turn and then ended
C14_Witness ==
    /\ pc \in TerminalPcs
    /\ retries >= 1
    /\ enters = hMaxRetries
    /\ hMaxRetries = DefaultMaxRetries
    /\ wTicks >= 1
    /\ wOutcome = "timedout"

-----------------------------------------------------------------------------
(* What the caller of InitializeRichResultsScript gets *)

\* C15: the caller receives the terminal outcome: the call resolves only on
\* Complete, and a run that failed with an error (the retried step's own
\* error, the repeated-error one or the timed-out one) ends with the promise
\* rejected with that error, never with the process gone.
C15_CallerReceivesOutcome ==
    /\ pc = "resolved" => wOutcome = "complete" /\ raised = NoValue
    /\ (pc \in TerminalPcs /\ raised # NoValue) => pc = "rejected"

-----------------------------------------------------------------------------
(* The attempt counter of retryOperation, checked under SpecRetry *)

\* C16 as stated: in every state of retryOperation the attempt counter is
\* at most the maximum retry count.
C16_AttemptNeverExceedsRetries == rAttempt <= rRetries

\* C16: the attempt counter is 0 until fn has been invoked, is at most
\* retries while another invocation of fn can still follow, never exceeds
\* retries + 1, and is retries + 1 exactly when the call has thrown.
C16_AttemptAtMostRetriesPlusOne ==
    /\ (fnLog = <<>> => rAttempt = 0)
    /\ rAttempt <= rRetries + 1
    /\ (pc \in {"retry_try", "retry_catch"} => rAttempt <= rRetries)
    /\ (rAttempt = rRetries + 1 <=> rOutcome.kind = "threw")

\* a call that gave up after at least one retry: the counter is retries + 1
C16_Witness ==
    /\ rOutcome.kind = "threw"
    /\ rRetries >= 1
    /\ rAttempt = rRetries + 1
    /\ Len(delays) = rRetries

-----------------------------------------------------------------------------
(* The frame of handleRetryOnFailure and of the poller, checked under Spec *)

\* C17: when the first observation after submission shows no error modal,
\* handleRetryOnFailure has returned on that observation: it is the only
\* observation, no dismiss button was clicked, Enter was not pressed again,
\* no settle wait was made, the loop variable is still 1, and control is at
\* the call of waitForTestCompletion or beyond it.
C17_NoErrorNoRecovery ==
    (errObs # <<>> /\ ~errObs[1]) =>
        /\ errObs = <<FALSE>>
        /\ dismisses = 0
        /\ enters = 0
        /\ settles = 0
        /\ hAttempt <= 1
        /\ raised # ErrRepeated
        /\ (pc = "call_wait" \/ wOutcome # "notcalled")

\* the default budget of five, untouched, and the poller has ticked
C17_Witness ==
    /\ errObs = <<FALSE>>
    /\ hMaxRetries = DefaultMaxRetries
    /\ hAttempt = 1
    /\ wTicks >= 1

-----------------------------------------------------------------------------
(* One tick, two reads of the page: checked under SpecPoll *)

\* C18: when the poller has returned Complete, one of the page states read
\* during the deciding tick had the processing indicator absent and a
\* completion signal present: either the state read by the spinner check
\* (wSpinner, wSpinSignal) or the state read by the results check (wPage).
C18_CompleteFromOnePageState ==
    wOutcome = "complete" =>
        \/ (wSpinner = "absent" /\ wSpinSignal)
        \/ (~wPage.spinner /\ CompletionSignal(wPage))

-----------------------------------------------------------------------------
(* No recovery after polling has started: checked under Spec *)

HandlePcs ==
    {"call_handleRetry", "h_observe", "h_dismiss", "h_resubmit", "h_settle",
     "h_final"}

\* C19: once waitForTestCompletion has been entered, control never returns
\* to handleRetryOnFailure, no step observes the error text, clicks dismiss,
\* presses Enter again or makes a settle wait, and the repeated-error
\* failure is not produced: a run whose poller read a page carrying the
\* error text ends as timed out, as Complete, or on a rejected remote call.
C19_NoRecoveryAfterPolling ==
    /\ [](wOutcome # "notcalled" =>
            /\ pc \notin HandlePcs
            /\ raised # ErrRepeated
            /\ (wPage.err /\ pc \in TerminalPcs =>
                    \/ wOutcome = "timedout" /\ raised = ErrTimedOut
                    \/ wOutcome = "complete" /\ CompletionSignal(wPage)
                    \/ raised \in {RemoteError(step) : step \in RemotePcs}))
    /\ [][(wOutcome # "notcalled") =>
            (UNCHANGED <<hMaxRetries, hAttempt, errObs, enters, dismisses, settles>>)]_vars

\* the error text first shows up at a results check and the run times out
C19_Witness ==
    /\ errObs = <<FALSE>>
    /\ wPage.err
    /\ ~CompletionSignal(wPage)
    /\ wOutcome = "timedout"
    /\ pc = "exited"

-----------------------------------------------------------------------------
(* Release of the browser: checked under Spec *)

\* C20: a run that launched the browser has closed it when the run has
\* ended, whichever way it ended: no run is over with the browser open.
C20_BrowserClosedAtEnd == pc \in TerminalPcs => browser # "open"

====
